---------------------------- MODULE Spec2Model ----------------------------
(***************************************************************************)
(* Black-Scholes option pricing, delta-hedging simulation and market-maker *)
(* quoting (market_maker.py, hedging_autosim.py, compare_volatility.py).   *)
(*                                                                         *)
(* Numbers.  The Python code computes in IEEE-754 binary floating point.   *)
(* The model keeps that arithmetic and shrinks the format: a finite value  *)
(* is an integer count of 2^-FracBits, every operation rounds its exact    *)
(* result to Precision significant bits, ties to even (the spacing never   *)
(* gets below 2^-FracBits: gradual underflow).  NaN, +inf and -inf are     *)
(* three reserved integers.  numpy/scipy library functions (log, exp,      *)
(* sqrt, norm.cdf, norm.pdf) are series evaluated in that arithmetic.      *)
(***************************************************************************)
EXTENDS Integers, Sequences, FiniteSets, TLC

(***************************************************************************)
(* Bounds of the model                                                     *)
(***************************************************************************)
\* significant bits of the floating-point format (a double has 53)
Precision == 9
\* binary digits after the point of the smallest spacing
FracBits == 11
\* largest step count n_steps handed to a simulator
MaxSteps == 2
\* largest number of run() calls made on one simulator object
MaxRuns == 2

Unit == 2 ^ FracBits

(***************************************************************************)
(* IEEE special values                                                     *)
(***************************************************************************)
PosInf == 2 ^ 30
NegInf == 0 - (2 ^ 30)
NaN == (2 ^ 30) + 1

IsNaN(x) == x = NaN
IsInf(x) == x = PosInf \/ x = NegInf
IsFin(x) == ~IsNaN(x) /\ ~IsInf(x)

Abs(n) == IF n < 0 THEN 0 - n ELSE n
Sign(n) == IF n < 0 THEN 0 - 1 ELSE IF n > 0 THEN 1 ELSE 0
MaxI(a, b) == IF a >= b THEN a ELSE b

RECURSIVE BitLen(_)
BitLen(n) == IF n = 0 THEN 0 ELSE 1 + BitLen(n \div 2)

\* Every operation binds its operands as values ([u \in Int |-> ...][a]), so
\* that an operand expression is evaluated once.

\* num/d (d > 0) rounded to the nearest integer, ties to the even one
RoundHalfEven(num, d) ==
  [n \in Int, e \in Int |->
     LET q == n \div e
         r == n % e
     IN  IF 2 * r < e THEN q
         ELSE IF 2 * r > e THEN q + 1
         ELSE IF q % 2 = 0 THEN q ELSE q + 1][num, d]

\* spacing (in units of 2^-FracBits) of the format at magnitude n
Ulp(n) == 2 ^ MaxI(0, BitLen(Abs(n)) - Precision)

\* the rational num/den (den > 0), in units of 2^-FracBits, rounded to the format
RoundQ(num, den) ==
  [n \in Int, e \in Int |->
     [s \in Int |-> RoundHalfEven(n, e * (2 ^ s)) * (2 ^ s)]
       [MaxI(0, BitLen(Abs(n) \div e) - Precision)]][num, den]

RECURSIVE Reduce2(_, _)
\* num and den with their common factors of two removed
Reduce2(num, den) ==
  IF num # 0 /\ num % 2 = 0 /\ den % 2 = 0 THEN Reduce2(num \div 2, den \div 2)
  ELSE <<num, den>>

\* a decimal literal n/d of the source, as the parser rounds it
Lit(n, d) == RoundQ(n * Unit, d)

\* Python float comparisons: every comparison with NaN is False
FLt(a, b) == [u \in Int, v \in Int |-> ~IsNaN(u) /\ ~IsNaN(v) /\ u < v][a, b]
FLe(a, b) == [u \in Int, v \in Int |-> ~IsNaN(u) /\ ~IsNaN(v) /\ u <= v][a, b]
FGt(a, b) == FLt(b, a)

FNeg(a) == [u \in Int |-> IF IsNaN(u) THEN NaN ELSE 0 - u][a]

FAdd(a, b) ==
  [u \in Int, v \in Int |->
     IF IsNaN(u) \/ IsNaN(v) THEN NaN
     ELSE IF IsInf(u) /\ IsInf(v) THEN (IF u = v THEN u ELSE NaN)
     ELSE IF IsInf(u) THEN u
     ELSE IF IsInf(v) THEN v
     ELSE RoundQ(u + v, 1)][a, b]

FSub(a, b) == FAdd(a, FNeg(b))

FMul(a, b) ==
  [u \in Int, v \in Int |->
     IF IsNaN(u) \/ IsNaN(v) THEN NaN
     ELSE IF IsInf(u) \/ IsInf(v)
          THEN (IF u = 0 \/ v = 0 THEN NaN
                ELSE IF Sign(u) * Sign(v) > 0 THEN PosInf ELSE NegInf)
     ELSE RoundQ(u * v, Unit)][a, b]

\* numpy float64 division: x/0 is +-inf or nan (a warning, no exception)
FDiv(a, b) ==
  [u \in Int, v \in Int |->
     IF IsNaN(u) \/ IsNaN(v) THEN NaN
     ELSE IF IsInf(u) THEN (IF IsInf(v) THEN NaN
                            ELSE IF Sign(u) * (IF v < 0 THEN 0 - 1 ELSE 1) > 0
                                 THEN PosInf ELSE NegInf)
     ELSE IF IsInf(v) THEN 0
     ELSE IF v = 0 THEN (IF u = 0 THEN NaN ELSE IF u > 0 THEN PosInf ELSE NegInf)
     ELSE [nd \in {Reduce2(Abs(u), Abs(v))} |->
             Sign(u) * Sign(v) * RoundQ(nd[1] * Unit, nd[2])]
            [Reduce2(Abs(u), Abs(v))]][a, b]

FAbs(a) == [u \in Int |-> IF IsNaN(u) THEN NaN ELSE Abs(u)][a]

\* Python's builtin max(a, b): b if b > a, else a (so max(nan, 0) is nan)
PyMax(a, b) == [u \in Int, v \in Int |-> IF FGt(v, u) THEN v ELSE u][a, b]

(***************************************************************************)
(* Library functions of numpy and scipy.stats                              *)
(***************************************************************************)
RECURSIVE ISqrtIn(_, _, _)
\* the largest r in lo..hi with r*r <= n
ISqrtIn(n, lo, hi) ==
  IF lo >= hi THEN lo
  ELSE [mid \in Int |->
          IF mid * mid <= n THEN ISqrtIn(n, mid, hi) ELSE ISqrtIn(n, lo, mid - 1)]
         [(lo + hi + 1) \div 2]

\* the nearest multiple of 2^s to sqrt(n), in units of 2^s
SqrtRound(n, s) ==
  [c \in Int |->
     [t \in Int |-> IF t < 4 * n THEN c + 1
                    ELSE IF t > 4 * n THEN c
                    ELSE IF c % 2 = 0 THEN c ELSE c + 1]
       [(2 * c + 1) * (2 * c + 1) * (4 ^ s)]]
    [ISqrtIn(n \div (4 ^ s), 0, 46340)]

\* np.sqrt: nan for a negative argument (a warning, no exception)
FSqrt(x) ==
  [u \in Int |->
     IF IsNaN(u) \/ u < 0 THEN NaN
     ELSE IF u = PosInf THEN PosInf
     ELSE [s \in Int |-> SqrtRound(u * Unit, s) * (2 ^ s)]
            [MaxI(0, BitLen(ISqrtIn(u * Unit, 0, 46340)) - Precision)]][x]

\* the series of FLn in z = (x-1)/(x+1) and z2 = z*z
LnSeries(z, z2) ==
  FMul(2 * Unit,
       FMul(z, FAdd(Unit,
                    FMul(z2, FAdd(Lit(1, 3),
                                  FMul(z2, FAdd(Lit(1, 5), FMul(z2, Lit(1, 7)))))))))

\* np.log of a positive ratio: 2*atanh((x-1)/(x+1)) as a series
FLn(x) ==
  [u \in Int |->
     IF IsNaN(u) \/ u < 0 THEN NaN
     ELSE IF u = 0 THEN NegInf
     ELSE IF u = PosInf THEN PosInf
     ELSE [z \in Int |-> [z2 \in Int |-> LnSeries(z, z2)][FMul(z, z)]]
            [FDiv(FSub(u, Unit), FAdd(u, Unit))]][x]

\* the Taylor polynomial of exp, degree 5, in Horner form
ExpSeries(u) ==
  FAdd(Unit,
    FMul(u, FAdd(Unit,
      FMul(FDiv(u, 2 * Unit), FAdd(Unit,
        FMul(FDiv(u, 3 * Unit), FAdd(Unit,
          FMul(FDiv(u, 4 * Unit), FAdd(Unit, FDiv(u, 5 * Unit))))))))))

RECURSIVE FExp(_)
\* np.exp: Taylor series on [-1/2, 1/2], squaring outside
FExp(x) ==
  [u \in Int |->
     IF IsNaN(u) THEN NaN
     ELSE IF u = PosInf THEN PosInf
     ELSE IF u = NegInf \/ u < 0 - 16 * Unit THEN 0
     ELSE IF 2 * Abs(u) > Unit
          THEN [h \in Int |-> FMul(h, h)][FExp(FDiv(u, 2 * Unit))]
     ELSE ExpSeries(u)][x]

\* scipy.stats.norm.cdf: the upper tail is (1 + c1 x + c2 x^2 + c3 x^3 +
\* c4 x^4)^-4 / 2 for x >= 0 (Abramowitz-Stegun 26.2.18); cdf(x) is the tail
\* of -x below 0 and 1 - tail(x) above; beyond |x| = 5 the value is within
\* one spacing of 0 or 1
NormTail(x) ==
  [q2 \in Int |-> FDiv(FMul(q2, q2), 2 * Unit)]
    [[q \in Int |-> FMul(q, q)]
       [FDiv(Unit,
             FAdd(FMul(FAdd(FMul(FAdd(FMul(FAdd(FMul(Lit(19527, 1000000), x),
                                                  Lit(344, 1000000)), x),
                                       Lit(115194, 1000000)), x),
                            Lit(196854, 1000000)), x),
                  Unit))]]

NormCdf(x) ==
  [u \in Int |->
     IF IsNaN(u) THEN NaN
     ELSE IF u >= 5 * Unit THEN Unit
     ELSE IF u <= 0 - 5 * Unit THEN 0
     ELSE IF u >= 0 THEN FSub(Unit, NormTail(u))
     ELSE NormTail(0 - u)][x]

\* scipy.stats.norm.pdf: exp(-x^2/2)/sqrt(2 pi); beyond |x| = 6 below one spacing
NormPdf(x) ==
  [u \in Int |->
     IF IsNaN(u) THEN NaN
     ELSE IF Abs(u) >= 6 * Unit THEN 0
     ELSE FMul(FExp(FNeg(FDiv(FMul(u, u), 2 * Unit))), Lit(398942, 1000000))][x]

(***************************************************************************)
(* State                                                                   *)
(***************************************************************************)
\* sims[i]: the DeltaHedgingSimulator object i (fields of self, the locals of
\*          its run in progress, and the shocks it has drawn so far)
\* args[i]: the arguments object i was constructed with
\* mm:      the OptionMarketMaker object
\* quote:   the locals of the last make_market call
\* call:    the last direct call of black_scholes_price / black_scholes_delta
VARIABLES sims, args, mm, quote, call

vars == <<sims, args, mm, quote, call>>

Objects == {1, 2}

Half == Lit(1, 2)

\* compare_volatility.py defines run(), hedging_autosim.py run_simulation()
Variants == {"compare", "autosim"}

(***************************************************************************)
(* DeltaHedgingSimulator: the pricer                                       *)
(***************************************************************************)
\* d1 of both black_scholes_delta and black_scholes_price
D1(o, S, time_left) ==
  FDiv(FAdd(FLn(FDiv(S, o.K)),
            FMul(FAdd(o.r, FMul(Half, FMul(o.sigma, o.sigma))), time_left)),
       FMul(o.sigma, FSqrt(time_left)))

\* a pricer whose boundary branch is taken below 0 only
PricerBranchStrict(time_left) ==
  IF FLt(time_left, 0) THEN "boundary" ELSE "formula"

\* which branch a pricer call takes: the boundary return, or the formula
PricerBranch(time_left) == IF FLe(time_left, 0) THEN "boundary" ELSE "formula"

black_scholes_delta(o, S, time_left) ==
  IF PricerBranch(time_left) = "boundary" THEN 0
  ELSE NormCdf(D1(o, S, time_left))

black_scholes_price(o, S, time_left) ==
  IF PricerBranch(time_left) = "boundary" THEN PyMax(FSub(S, o.K), 0)
  ELSE LET d1 == D1(o, S, time_left)
           d2 == FSub(d1, FMul(o.sigma, FSqrt(time_left)))
       IN  FSub(FMul(S, NormCdf(d1)),
                FMul(FMul(o.K, FExp(FMul(FNeg(o.r), time_left))), NormCdf(d2)))

(***************************************************************************)
(* DeltaHedgingSimulator: construction and the run                         *)
(***************************************************************************)
NoSim ==
  [st |-> "absent", variant |-> "compare", S |-> 0, K |-> 0, T |-> 0,
   r |-> 0, sigma |-> 0, dt |-> 0, n_steps |-> 0, cash |-> 0,
   stock_inventory |-> 0, pnl_history |-> <<>>, stock_price_history |-> <<>>,
   initial_premium |-> 0, current_time |-> 0, step |-> 0, target_delta |-> 0,
   trade_size |-> 0, cash_before |-> 0, inventory_before |-> 0, runs |-> 0,
   shocks |-> <<>>]

NoArgs ==
  [variant |-> "compare", S0 |-> 0, K |-> 0, T |-> 0, r |-> 0, sigma |-> 0,
   n_steps |-> 0]

\* __init__: T / n_steps raises ZeroDivisionError for n_steps = 0, before the
\* portfolio fields are assigned; no other argument is checked
NewSim(variant, S0, K, T, r, sigma, n_steps) ==
  IF n_steps = 0
  THEN [NoSim EXCEPT !.st = "ctor_raised", !.variant = variant, !.S = S0,
                     !.K = K, !.T = T, !.r = r, !.sigma = sigma]
  ELSE [NoSim EXCEPT !.st = "new", !.variant = variant, !.S = S0,
                     !.K = K, !.T = T, !.r = r, !.sigma = sigma,
                     !.dt = FDiv(T, n_steps * Unit), !.n_steps = n_steps,
                     !.cash = 0, !.stock_inventory = 0, !.pnl_history = <<>>,
                     !.stock_price_history = <<S0>>, !.initial_premium = 0]

\* where the run goes after `done` loop iterations: range(n_steps) is empty
\* for n_steps <= 0; after the loop run() returns its tuple, and
\* run_simulation() prints pnl_history[-1] (IndexError on an empty list)
AfterIteration(o, done) ==
  IF done < o.n_steps THEN "rehedge"
  ELSE IF o.variant = "autosim" /\ o.pnl_history = <<>> THEN "run_raised"
  ELSE "returned"

\* run / run_simulation up to the loop: sell the option
EnterRun(o) ==
  LET premium == black_scholes_price(o, o.S, o.T)
      o1 == [o EXCEPT !.initial_premium =
                         IF o.variant = "compare" THEN premium ELSE @,
                      !.cash = FAdd(@, premium), !.current_time = o.T,
                      !.step = 0, !.runs = @ + 1]
  IN  [o1 EXCEPT !.st = AfterIteration(o1, 0)]

\* a loop body that executes every trade, whatever its size
TradeAlways(o, trade_size) == TRUE

\* whether the loop body executes the trade: always in run(); in
\* run_simulation() only if abs(trade_size) > 0.001
TradeExecuted(o, trade_size) ==
  o.variant = "compare" \/ FGt(FAbs(trade_size), Lit(1, 1000))

\* a trade settled at the strike instead of the stock price
TradeCostAtStrike(o, trade_size) == FMul(trade_size, o.K)

\* cost = trade_size * self.S
TradeCost(o, trade_size) == FMul(trade_size, o.S)

\* first half of the loop body: target delta and re-hedge, at the price self.S
RehedgeStep(o) ==
  LET target == black_scholes_delta(o, o.S, o.current_time)
      trade  == FSub(target, o.stock_inventory)
      cost   == TradeCost(o, trade)
      o1 == [o EXCEPT !.target_delta = target, !.trade_size = trade,
                      !.cash_before = o.cash,
                      !.inventory_before = o.stock_inventory, !.st = "move"]
  IN  IF TradeExecuted(o, trade)
      THEN [o1 EXCEPT !.cash = FSub(@, cost), !.stock_inventory = FAdd(@, trade)]
      ELSE o1

\* the time the mark-to-market hands to black_scholes_price: current_time is
\* decremented only after the valuation
MarkTime(o) == o.current_time

\* second half of the loop body: market move, mark-to-market, time decrement
MoveStep(o, shock) ==
  LET drift == FMul(FSub(o.r, FMul(Half, FMul(o.sigma, o.sigma))), o.dt)
      diffusion == FMul(FMul(o.sigma, FSqrt(o.dt)), shock)
      S1 == FMul(o.S, FExp(FAdd(drift, diffusion)))
      current_option_value == black_scholes_price(o, S1, MarkTime(o))
      portfolio_value ==
        FSub(FAdd(o.cash, FMul(o.stock_inventory, S1)), current_option_value)
      o1 == [o EXCEPT !.S = S1,
                      !.stock_price_history = Append(@, S1),
                      !.pnl_history = Append(@, portfolio_value),
                      !.current_time = FSub(@, o.dt),
                      !.step = @ + 1,
                      !.shocks = Append(@, shock)]
  IN  [o1 EXCEPT !.st = AfterIteration(o1, o1.step)]

(***************************************************************************)
(* Inputs                                                                  *)
(***************************************************************************)
\* samples of np.random.normal(0, 1): the global, unseeded generator
Shocks == {0 - Unit, Unit}

Spots == {Lit(10, 1)}
Strikes == {Lit(9, 1), Lit(10, 1), Lit(14, 1)}
Rate == Lit(5, 100)
\* expiries, volatilities and step counts, valid and invalid ones
Expiries == {Lit(1, 4), 0 - Lit(1, 4)}
Volatilities == {0, Lit(1, 5), Lit(2, 5)}
StepCounts == (0 - 1) .. MaxSteps

\* the parameters the data model calls valid
ValidParameters(a) == a.sigma > 0 /\ a.n_steps > 0 /\ a.T >= 0

(***************************************************************************)
(* Actions on simulator objects                                            *)
(***************************************************************************)
\* methods that all work on the fields of the first object
SelfShared(i) == sims[1]

\* self inside a method of object i
Self(i) == sims[i]

Construct(i, Ks, Ts, sigmas, ns) ==
  /\ sims[i].st = "absent"
  /\ \E variant \in Variants, S0 \in Spots, K \in Ks, T \in Ts,
        sigma \in sigmas, n_steps \in ns :
       /\ sims' = [sims EXCEPT ![i] = NewSim(variant, S0, K, T, Rate, sigma, n_steps)]
       /\ args' = [args EXCEPT ![i] = [variant |-> variant, S0 |-> S0, K |-> K,
                                       T |-> T, r |-> Rate, sigma |-> sigma,
                                       n_steps |-> n_steps]]
  /\ UNCHANGED <<mm, quote, call>>

\* the first run()/run_simulation() call on a constructed object
FirstRun(i) ==
  /\ Self(i).st = "new"
  /\ sims' = [sims EXCEPT ![i] = EnterRun(Self(i))]
  /\ UNCHANGED <<args, mm, quote, call>>

\* a further call on the same object, after the previous one returned
ReRun(i) ==
  /\ Self(i).st = "returned"
  /\ Self(i).runs < MaxRuns
  /\ sims' = [sims EXCEPT ![i] = EnterRun(Self(i))]
  /\ UNCHANGED <<args, mm, quote, call>>

Rehedge(i) ==
  /\ Self(i).st = "rehedge"
  /\ sims' = [sims EXCEPT ![i] = RehedgeStep(Self(i))]
  /\ UNCHANGED <<args, mm, quote, call>>

Move(i) ==
  /\ Self(i).st = "move"
  /\ \E shock \in Shocks : sims' = [sims EXCEPT ![i] = MoveStep(Self(i), shock)]
  /\ UNCHANGED <<args, mm, quote, call>>

(***************************************************************************)
(* OptionMarketMaker                                                       *)
(***************************************************************************)
NoMM == [st |-> "absent", S |-> 0, sigma |-> 0, r |-> 0]
NoQuote ==
  [st |-> "none", K |-> 0, days_left |-> 0, T |-> 0, fair_value |-> 0,
   delta |-> 0, gamma |-> 0, theta |-> 0, spread |-> 0, bid |-> 0, ask |-> 0]

\* d1_d2: no branch on T; numpy divides by sigma*sqrt(T) = 0 or nan silently
d1_d2(m, K, T) ==
  [d1 \in Int |-> <<d1, FSub(d1, FMul(m.sigma, FSqrt(T)))>>]
    [FDiv(FAdd(FLn(FDiv(m.S, K)),
               FMul(FAdd(m.r, FMul(Half, FMul(m.sigma, m.sigma))), T)),
          FMul(m.sigma, FSqrt(T)))]

\* get_price_and_greeks: <<price, delta, gamma, theta>>
get_price_and_greeks(m, K, T) ==
  [d \in {d1_d2(m, K, T)} |->
     << FSub(FMul(m.S, NormCdf(d[1])),
             FMul(FMul(K, FExp(FMul(FNeg(m.r), T))), NormCdf(d[2]))),
        NormCdf(d[1]),
        FDiv(NormPdf(d[1]), FMul(FMul(m.S, m.sigma), FSqrt(T))),
        FSub(FDiv(FNeg(FMul(FMul(m.S, NormPdf(d[1])), m.sigma)),
                  FMul(2 * Unit, FSqrt(T))),
             FMul(FMul(FMul(m.r, K), FExp(FMul(FNeg(m.r), T))), NormCdf(d[2]))) >>]
    [d1_d2(m, K, T)]

\* a quote that puts the whole spread on each side of the fair value
BidAskFullSpread(fair_value, spread) ==
  <<FSub(fair_value, spread), FAdd(fair_value, spread)>>

\* the bid/ask pair make_market derives from the fair value
BidAsk(fair_value, spread) ==
  <<FSub(fair_value, FDiv(spread, 2 * Unit)),
    FAdd(fair_value, FDiv(spread, 2 * Unit))>>

\* make_market: the values of its locals when it prints them
make_market(m, K, days_left) ==
  [T \in Int |->
     [g \in {get_price_and_greeks(m, K, T)} |->
        [st |-> "quoted", K |-> K, days_left |-> days_left, T |-> T,
         fair_value |-> g[1], delta |-> g[2], gamma |-> g[3], theta |-> g[4],
         spread |-> Lit(4, 100),
         bid |-> BidAsk(g[1], Lit(4, 100))[1],
         ask |-> BidAsk(g[1], Lit(4, 100))[2]]]
       [get_price_and_greeks(m, K, T)]]
    [FDiv(days_left * Unit, Lit(365, 1))]

QuoteSpots == {Lit(9, 1), Lit(10, 1), Lit(11, 1), Lit(12, 1)}
QuoteVolatilities == {Lit(1, 5), Lit(3, 10)}
DaysLeft == {0 - 1, 0, 1, 30, 90}

\* OptionMarketMaker(spot_price, volatility): risk_free_rate defaults to 0.05
NewMarketMaker ==
  /\ mm.st = "absent"
  /\ \E S \in QuoteSpots, sigma \in QuoteVolatilities :
       mm' = [st |-> "new", S |-> S, sigma |-> sigma, r |-> Lit(5, 100)]
  /\ UNCHANGED <<sims, args, quote, call>>

MakeMarket ==
  /\ mm.st = "new"
  /\ \E K \in Strikes, days_left \in DaysLeft : quote' = make_market(mm, K, days_left)
  /\ UNCHANGED <<sims, args, mm, call>>

(***************************************************************************)
(* Direct calls of the pricer                                              *)
(***************************************************************************)
NoCall ==
  [st |-> "none", fn |-> "price", S |-> 0, K |-> 0, sigma |-> 0, r |-> 0,
   time_left |-> 0, branch |-> "boundary", value |-> 0]

CallSpots == {Lit(8, 1), Lit(10, 1), Lit(25, 2)}
CallVolatilities == {0, Lit(1, 5)}
\* remaining times: negative, zero, the smallest positive one, three months
CallTimes == {0 - Lit(1, 4), 0, 1, Lit(1, 4)}

PricerCall(fn, o, S, time_left) ==
  [st |-> "returned", fn |-> fn, S |-> S, K |-> o.K, sigma |-> o.sigma,
   r |-> o.r, time_left |-> time_left, branch |-> PricerBranch(time_left),
   value |-> IF fn = "price" THEN black_scholes_price(o, S, time_left)
             ELSE black_scholes_delta(o, S, time_left)]

CallPricer(fn) ==
  /\ \E S \in CallSpots, K \in Strikes, sigma \in CallVolatilities,
        time_left \in CallTimes :
       call' = PricerCall(fn, [K |-> K, r |-> Rate, sigma |-> sigma], S, time_left)
  /\ UNCHANGED <<sims, args, mm, quote>>

Init ==
  /\ sims = [i \in Objects |-> NoSim]
  /\ args = [i \in Objects |-> NoArgs]
  /\ mm = NoMM
  /\ quote = NoQuote
  /\ call = NoCall

\* one simulator object, any parameters, run up to MaxRuns times
NextHedge ==
  \/ Construct(1, Strikes, Expiries, Volatilities, StepCounts)
  \/ FirstRun(1)
  \/ ReRun(1)
  \/ Rehedge(1)
  \/ Move(1)

Spec == Init /\ [][NextHedge]_vars

\* two simulator objects with valid parameters, each run once, their loop
\* iterations interleaved in every order
NextPar ==
  \E i \in Objects :
    \/ Construct(i, {Lit(10, 1)}, {Lit(1, 4)}, {Lit(1, 5)}, 1 .. MaxSteps)
    \/ FirstRun(i)
    \/ Rehedge(i)
    \/ Move(i)

SpecPar == Init /\ [][NextPar]_vars

\* the market maker: constructed once, quoting any strike and expiry
NextQuote == NewMarketMaker \/ MakeMarket

SpecQuote == Init /\ [][NextQuote]_vars

\* the pricer functions called directly
NextPricer == CallPricer("price") \/ CallPricer("delta")

SpecPricer == Init /\ [][NextPricer]_vars

(***************************************************************************)
(* Properties                                                              *)
(***************************************************************************)
Last(seq) == seq[Len(seq)]

\* objects whose run has started
Started(o) == o.st \in {"rehedge", "move", "returned", "run_raised"}

\* at the top of the loop or after it, with at least one iteration completed
IterationDone(o) == o.st \in {"rehedge", "returned"} /\ o.step >= 1

\* max(S - K, 0), the subtraction rounded once
Intrinsic(S, K) == IF S > K THEN RoundQ(S - K, 1) ELSE 0

\* C1: after every iteration k the recorded PnL is cash + inventory*S_{k+1}
\* minus the option priced at the already advanced time time_left_{k+1}
\* (current_time after its decrement); after the last iteration that price
\* is the intrinsic value.
C1_MarkToMarketAtAdvancedTime ==
  \A i \in Objects :
    (ValidParameters(args[i]) /\ IterationDone(sims[i])) =>
      /\ Last(sims[i].pnl_history) =
           FSub(FAdd(sims[i].cash, FMul(sims[i].stock_inventory, sims[i].S)),
                black_scholes_price(sims[i], sims[i].S, sims[i].current_time))
      /\ sims[i].st = "returned" =>
           Last(sims[i].pnl_history) =
             FSub(FAdd(sims[i].cash, FMul(sims[i].stock_inventory, sims[i].S)),
                  Intrinsic(sims[i].S, sims[i].K))

\* C2: after k completed iterations of a run the price path has k + 1
\* entries, the first being S0, and the PnL series k; n_steps + 1 and
\* n_steps when the run has returned.
C2_HistoryLengths ==
  \A i \in Objects :
    (ValidParameters(args[i]) /\ Started(sims[i])) =>
      /\ Len(sims[i].stock_price_history) = sims[i].step + 1
      /\ sims[i].stock_price_history[1] = args[i].S0
      /\ Len(sims[i].pnl_history) = sims[i].step
      /\ sims[i].st = "returned" => sims[i].step = args[i].n_steps

\* C3: a simulator given volatility <= 0, a step count <= 0 or an expiry < 0
\* fails before it mutates anything: it never gets into its loop and never
\* returns, cash and inventory stay 0, the path stays [S0], the PnL series
\* stays empty.
C3_InvalidParameterFailsFast ==
  \A i \in Objects :
    (sims[i].st # "absent" /\ ~ValidParameters(args[i])) =>
      /\ sims[i].st \in {"ctor_raised", "new", "run_raised"}
      /\ sims[i].cash = 0
      /\ sims[i].stock_inventory = 0
      /\ sims[i].pnl_history = <<>>
      /\ sims[i].st # "ctor_raised" => sims[i].stock_price_history = <<args[i].S0>>

\* C5: every call that runs a simulation starts fresh: when it reaches its
\* first iteration the cash is the premium of S0 credited once to 0, the
\* inventory is 0, the spot is S0, the path is [S0] and the PnL series empty.
C5_RunStartsFresh ==
  \A i \in Objects :
    (ValidParameters(args[i]) /\ sims[i].st = "rehedge" /\ sims[i].step = 0) =>
      /\ sims[i].cash = black_scholes_price(sims[i], args[i].S0, args[i].T)
      /\ sims[i].stock_inventory = 0
      /\ sims[i].S = args[i].S0
      /\ sims[i].stock_price_history = <<args[i].S0>>
      /\ sims[i].pnl_history = <<>>

\* just after the re-hedge of an iteration, before the market move, with
\* valid parameters and finite values
Rehedged(i) ==
  /\ ValidParameters(args[i])
  /\ sims[i].st = "move"
  /\ IsFin(sims[i].cash_before) /\ IsFin(sims[i].cash)
  /\ IsFin(sims[i].target_delta) /\ IsFin(sims[i].S)

\* the pre-shock price S_k of the iteration in progress
PreShockPrice(i) == Last(sims[i].stock_price_history)

\* the re-hedge of object i executed its trade
Traded(i) ==
  sims[i].variant = "compare" \/ Abs(sims[i].trade_size) > Lit(1, 1000)

\* C4 as claimed: after every re-hedge, whatever the size of the trade and in
\* both simulators, the inventory equals delta(S_k, time_left_k) and the cash
\* has decreased by exactly trade * S_k.
C4_RehedgeReachesTarget ==
  \A i \in Objects :
    Rehedged(i) =>
      /\ sims[i].stock_inventory =
           black_scholes_delta(sims[i], PreShockPrice(i), sims[i].current_time)
      /\ (sims[i].cash_before - sims[i].cash) * Unit =
           (sims[i].stock_inventory - sims[i].inventory_before) * PreShockPrice(i)

\* C4 as amended: the target is delta(S_k, time_left_k) and the trade is
\* target - inventory, rounded.  run() always executes it, run_simulation()
\* only if |trade| > 0.001: then the inventory becomes inventory + trade and
\* the cash cash - trade * S_k, each operation rounded once, so that the
\* inventory is within half a spacing of the trade plus half a spacing of
\* itself of the target.  Otherwise inventory and cash are left as they were.
C4_RehedgeTradesAboveThreshold ==
  \A i \in Objects :
    Rehedged(i) =>
      /\ sims[i].target_delta =
           black_scholes_delta(sims[i], PreShockPrice(i), sims[i].current_time)
      /\ sims[i].trade_size =
           RoundQ(sims[i].target_delta - sims[i].inventory_before, 1)
      /\ IF Traded(i)
         THEN /\ sims[i].stock_inventory =
                   RoundQ(sims[i].inventory_before + sims[i].trade_size, 1)
              /\ sims[i].cash =
                   RoundQ(sims[i].cash_before
                            - RoundQ(sims[i].trade_size * PreShockPrice(i), Unit), 1)
              /\ 2 * Abs(sims[i].stock_inventory - sims[i].target_delta)
                   <= Ulp(sims[i].trade_size) + Ulp(sims[i].stock_inventory)
         ELSE /\ sims[i].stock_inventory = sims[i].inventory_before
              /\ sims[i].cash = sims[i].cash_before

\* a re-hedge of run_simulation() that skipped a trade that was not zero
C4_SmallTradeSkipped ==
  \E i \in Objects :
    /\ Rehedged(i)
    /\ sims[i].variant = "autosim"
    /\ sims[i].trade_size # 0
    /\ ~Traded(i)
    /\ sims[i].stock_inventory # sims[i].target_delta

\* stock plus cash of object i at price S, in units of 2^-(2 FracBits)
Wealth(cash, inventory, S) == cash * Unit + inventory * S

\* C10 as claimed: cash + inventory * S_k is the same just before and just
\* after the re-hedge, traded or not.
C10_SelfFinancingExact ==
  \A i \in Objects :
    Rehedged(i) =>
      Wealth(sims[i].cash, sims[i].stock_inventory, PreShockPrice(i)) =
        Wealth(sims[i].cash_before, sims[i].inventory_before, PreShockPrice(i))

\* the price at which the last re-hedge of object i traded
LastHedgePrice(i) ==
  IF sims[i].st = "move" THEN PreShockPrice(i)
  ELSE sims[i].stock_price_history[Len(sims[i].stock_price_history) - 1]

\* C10 as amended: across a re-hedge cash + inventory * S_k changes by no
\* more than the rounding of the three results (half a spacing of the cost,
\* of the new cash, and of the new inventory times S_k), and not at all when
\* no trade is executed; the market move that follows leaves cash and
\* inventory as they are, so that it changes the value by
\* inventory * (S_{k+1} - S_k); every call of run() or run_simulation()
\* credits the option price at the object's current spot to the cash once,
\* before its first re-hedge.
C10_SelfFinancingUpToRounding ==
  /\ [](\A i \in Objects :
          (ValidParameters(args[i]) /\ sims[i].runs >= 1
             /\ (sims[i].st = "move" \/ IterationDone(sims[i]))
             /\ IsFin(sims[i].cash_before) /\ IsFin(sims[i].cash)) =>
            IF Traded(i)
            THEN 2 * Abs(Wealth(sims[i].cash, sims[i].stock_inventory,
                                LastHedgePrice(i))
                         - Wealth(sims[i].cash_before, sims[i].inventory_before,
                                  LastHedgePrice(i)))
                   <= Unit * Ulp(RoundQ(sims[i].trade_size * LastHedgePrice(i), Unit))
                      + Unit * Ulp(sims[i].cash)
                      + LastHedgePrice(i) * Ulp(sims[i].stock_inventory)
            ELSE /\ sims[i].cash = sims[i].cash_before
                 /\ sims[i].stock_inventory = sims[i].inventory_before)
  /\ [][\A i \in Objects :
          /\ (sims[i].st = "move" /\ sims'[i].st # "move") =>
               /\ sims'[i].cash = sims[i].cash
               /\ sims'[i].stock_inventory = sims[i].stock_inventory
          /\ (ValidParameters(args[i]) /\ sims'[i].runs # sims[i].runs) =>
               /\ sims'[i].cash =
                    RoundQ(sims[i].cash
                             + black_scholes_price(sims[i], sims[i].S, sims[i].T), 1)
               /\ sims'[i].stock_inventory = sims[i].stock_inventory]_vars

\* a second iteration's re-hedge has traded and the rounding shows
C10_RoundedRehedge ==
  \E i \in Objects :
    /\ Rehedged(i)
    /\ sims[i].step >= 1
    /\ Traded(i)
    /\ sims[i].trade_size # 0
    /\ Wealth(sims[i].cash, sims[i].stock_inventory, PreShockPrice(i)) #
         Wealth(sims[i].cash_before, sims[i].inventory_before, PreShockPrice(i))

\* the run of an object executed alone: the loop body once per shock
RECURSIVE ReplayFrom(_, _)
ReplayFrom(o, shocks) ==
  IF shocks = <<>> THEN o
  ELSE ReplayFrom(MoveStep(RehedgeStep(o), Head(shocks)), Tail(shocks))

\* the state an object constructed with arguments a is in when it runs alone,
\* has drawn `shocks`, and is at position st of its run
RunAlone(a, shocks, st) ==
  [o \in {NewSim(a.variant, a.S0, a.K, a.T, a.r, a.sigma, a.n_steps)} |->
     IF st = "new" THEN o
     ELSE IF st = "move" THEN RehedgeStep(ReplayFrom(EnterRun(o), shocks))
     ELSE ReplayFrom(EnterRun(o), shocks)]
    [NewSim(a.variant, a.S0, a.K, a.T, a.r, a.sigma, a.n_steps)]

C8_BoundaryAtOrBelowZero ==
  (call.st # "none" /\ call.time_left <= 0) =>
    /\ call.st = "returned"
    /\ call.branch = "boundary"
    /\ call.fn = "price" => call.value = Intrinsic(call.S, call.K)
    /\ call.fn = "delta" => call.value = 0

\* the price has been asked at remaining time 0 and volatility 0, in the money
C8_PriceAtExpiry ==
  /\ call.st = "returned" /\ call.fn = "price"
  /\ call.time_left = 0 /\ call.sigma = 0
  /\ call.S > call.K /\ call.value > 0

\* C6 as claimed: a quote for T <= 0 has bid = ask = max(S - K, 0).
C6_DegenerateQuoteAtExpiry ==
  (quote.st = "quoted" /\ quote.T <= 0) =>
    /\ quote.bid = Intrinsic(mm.S, quote.K)
    /\ quote.ask = Intrinsic(mm.S, quote.K)

\* C7 as claimed: for every quote with a fair value, ask - bid is exactly the
\* spread.
C7_SpreadExact ==
  (quote.st = "quoted" /\ IsFin(quote.fair_value)) =>
    FSub(quote.ask, quote.bid) = quote.spread

\* C7 as amended: bid and ask are fair -/+ spread/2 rounded to the nearest
\* representable value, so that ask - bid, itself rounded, is the spread up
\* to half a spacing of the bid, of the ask and of the difference; a fair
\* value that is not finite gives a bid, an ask and a difference that are not
\* numbers.
C7_SpreadUpToRounding ==
  quote.st = "quoted" =>
    IF IsFin(quote.fair_value)
    THEN /\ quote.bid = RoundQ(quote.fair_value - RoundQ(quote.spread, 2), 1)
         /\ quote.ask = RoundQ(quote.fair_value + RoundQ(quote.spread, 2), 1)
         /\ 2 * Abs(quote.bid - (quote.fair_value - RoundQ(quote.spread, 2)))
              <= Ulp(quote.bid)
         /\ 2 * Abs(quote.ask - (quote.fair_value + RoundQ(quote.spread, 2)))
              <= Ulp(quote.ask)
         /\ 2 * Abs(FSub(quote.ask, quote.bid) - quote.spread)
              <= Ulp(quote.bid) + Ulp(quote.ask)
                 + Ulp(FSub(quote.ask, quote.bid))
    ELSE /\ IsNaN(quote.bid) /\ IsNaN(quote.ask)
         /\ IsNaN(FSub(quote.ask, quote.bid))

\* a quote before expiry whose ask - bid is not the spread
C7_SpreadOffByRounding ==
  /\ quote.st = "quoted" /\ quote.T > 0
  /\ IsFin(quote.fair_value)
  /\ FSub(quote.ask, quote.bid) # quote.spread

=============================================================================
